---- MODULE Spec2Model ----
(***************************************************************************)
(* Model of the acquisition / fallback / alignment engine of               *)
(* fetch_okx_data.py.                                                      *)
(*                                                                         *)
(* Time is counted in whole hours since the epoch, so a 4-hour bar is 4    *)
(* units, the freshness limit is 12 units and the open-interest tolerance  *)
(* is 1 unit.  Funding rates are integers in units of 1e-4 (0.01 is 100).  *)
(* A cell of a merged column is a record: Val(v) for the float v, NaN for  *)
(* the missing value pandas leaves when a merge finds no match.            *)
(*                                                                         *)
(* A DataFrame is the sequence of its rows (records keyed by column name); *)
(* pd.DataFrame() is the empty sequence and df.empty is Len(df) = 0.       *)
(***************************************************************************)
EXTENDS Integers, Sequences, FiniteSets, TLC

VARIABLES
    pc,             \* position of main() in its loop body
    idx,            \* index in symbols of the asset being processed
    df_4h,          \* main: result of fetch_okx_candles(bar="4H")
    df,             \* main: the candle backbone, then the fused frame
    fr_df,          \* main: funding series
    oi_df,          \* main: resampled open-interest series
    raw,            \* all_records of each fetch made for the current asset
    failure_count,  \* main: failure_count
    csv_4h,         \* csv_data/<coin>_4h.csv, per asset
    csv_1d,         \* csv_data/<coin>_1d.csv, per asset
    calls,          \* fetch calls issued for the current asset, in order
    failed,         \* assets for which main() printed a failure and continued
    exit_status,    \* process exit status, -1 while main() runs
    outcome,        \* per asset: which message main() printed last for it
    raised,         \* fetch calls for the current asset that raised
    fetcher,        \* the fetch function whose pagination loop is followed
    stage,          \* fetch_ccxt_candles: 1 in its OKX loop, 2 in its Binance loop
    iteration,      \* loop counter of the pagination loop
    requests,       \* page requests issued by this fetch call so far
    ppc,            \* position of the fetch: request, sleep, returned, raised
    cursor,         \* TRUE once after / end_ts / current_start / since is set from a page
    got,            \* TRUE when all_records / all_ohlcv is not empty
    held,           \* pages whose rows are in all_records / all_ohlcv
    consumed,       \* pages with rows this fetch call has received
    response,       \* what the latest page request came back with
    page,           \* the latest page with rows
    wire,           \* rows of the page being decoded, as the provider sent them
    pos,            \* index in wire of the row the "for row in rows" loop is at
    records,        \* all_records of the fetch whose rows are followed
    after,          \* OKX fetchers: the loop variable after / end_ts
    sent,           \* OKX fetchers: the cursor parameter of the latest request
    mpc,            \* get_market_data: the sub-fetch it is at
    result,         \* get_market_data: its result dict
    answers,        \* get_market_data: what each sub-fetch request came back with
    clock,          \* server: wall-clock time, in hours
    sched,          \* run_scheduler: position in its loop
    wake_at,        \* run_scheduler: when its asyncio.sleep is over
    child,          \* the "python daily_update.py" subprocess of the scheduler
    doc,            \* latest_analysis.json
    handlers        \* analyze_all requests being served

drvvars == <<pc, idx, df_4h, df, fr_df, oi_df, raw, failure_count,
             csv_4h, csv_1d, calls, failed, exit_status, outcome, raised>>

pagevars == <<fetcher, stage, iteration, requests, ppc, cursor, got, held,
              consumed, response, page, wire, pos, records, after, sent>>

srvvars == <<mpc, result, answers, clock, sched, wake_at, child, doc,
             handlers>>

vars == <<drvvars, pagevars, srvvars>>

----------------------------------------------------------------------------
(* Bounds of the model.                                                    *)

\* number of entries of symbols that a run iterates over
MaxAssets == 2
\* wall clock (hours) at which the run takes place
Now == 16
\* longest record list a fetch accumulates in the batch-driver specification
MaxRaw == 2
\* longest candle backbone / funding list / open-interest list in the
\* fusion specification
MaxCandles == 3
MaxAux == 2

(* Program constants, in hours.                                            *)
MaxAgeHours == 12
BarHours == 4
ToleranceHours == 1

----------------------------------------------------------------------------
(* Generic helpers.                                                        *)

SeqsUpTo(S, n) == UNION {[1..k -> S] : k \in 0..n}

Range(s) == {s[i] : i \in 1..Len(s)}

\* s without its i-th element
RemoveAt(s, i) ==
    [j \in 1..(Len(s) - 1) |-> IF j < i THEN s[j] ELSE s[j + 1]]

IsAscending(s) == \A i \in 1..(Len(s) - 1) : s[i].datetime <= s[i + 1].datetime

IsStrictlyAscending(s) ==
    \A i \in 1..(Len(s) - 1) : s[i].datetime < s[i + 1].datetime

MaxDatetime(s) ==
    CHOOSE t \in {s[i].datetime : i \in 1..Len(s)} :
        \A i \in 1..Len(s) : s[i].datetime <= t

NaN == [isna |-> TRUE, val |-> 0]
Val(v) == [isna |-> FALSE, val |-> v]

\* r with column c added (or overwritten) with value v
WithColumn(r, c, v) ==
    [k \in DOMAIN r \cup {c} |-> IF k = c THEN v ELSE r[k]]

\* A csv file: old is TRUE while the run has not written it (it then holds
\* whatever an earlier run left), cols is the header and rows the content
\* of the last df.to_csv of this run.
Old == [old |-> TRUE, cols |-> {}, rows |-> <<>>]
Written(rows) == [old |-> FALSE, cols |-> DOMAIN rows[1], rows |-> rows]
\* The run never reads a file back, so once the loop has left an asset the
\* model keeps the header of its files and drops their rows.
Closed(file) == [file EXCEPT !.rows = <<>>]

Min(S) == CHOOSE x \in S : \A y \in S : x <= y
Max(S) == CHOOSE x \in S : \A y \in S : y <= x

RECURSIVE SortedSeq(_)
SortedSeq(S) ==
    IF S = {} THEN <<>> ELSE <<Min(S)>> \o SortedSeq(S \ {Min(S)})

----------------------------------------------------------------------------
(* pandas operations used by the fetchers and by main().                   *)

\* df.sort_values("datetime").reset_index(drop=True).  The default sort
\* kind is not stable, so rows with equal datetime may come out in any
\* order: every ascending permutation is a possible outcome.
\* The set is built front to back: any row with the least datetime, then
\* every ascending order of the others.
RECURSIVE SortValues(_)
SortValues(s) ==
    IF s = <<>> THEN {<<>>}
    ELSE LET least == Min({s[i].datetime : i \in 1..Len(s)})
         IN  UNION {{<<s[i]>> \o t : t \in SortValues(RemoveAt(s, i))} :
                      i \in {k \in 1..Len(s) : s[k].datetime = least}}

\* mutant of Bucket: buckets closed on the right
Bucket_RightClosed(t) == BarHours * ((t + BarHours - 1) \div BarHours)

\* epoch-aligned bucket of width BarHours that holds t (resample('4H'))
Bucket(t) == BarHours * (t \div BarHours)

BucketLabels(s) == SortedSeq({Bucket(s[i].datetime) : i \in 1..Len(s)})

\* mutant of LastInBucket: the earliest row of the bucket
LastInBucket_Earliest(s, b) ==
    s[Min({i \in 1..Len(s) : Bucket(s[i].datetime) = b})]

\* last row of s (in frame order) that falls into bucket b
LastInBucket(s, b) ==
    s[Max({i \in 1..Len(s) : Bucket(s[i].datetime) = b})]

FirstInBucket(s, b) ==
    s[Min({i \in 1..Len(s) : Bucket(s[i].datetime) = b})]

\* df.resample('4H').last().dropna().reset_index() on a frame indexed by
\* datetime with the single column open_interest: one row per bucket that
\* holds a record, labelled with the bucket's left edge.
ResampleLast(s) ==
    LET labels == BucketLabels(s) IN
    [k \in 1..Len(labels) |->
        [datetime |-> labels[k],
         open_interest |-> LastInBucket(s, labels[k]).open_interest]]

\* mutant of BackwardIdx: exact matches are not allowed
BackwardIdx_Strict(right, T) ==
    LET C == {j \in 1..Len(right) : right[j].datetime < T} IN
    IF C = {} THEN 0 ELSE Max(C)

\* merge_asof(direction='backward'): index of the last right row whose key
\* is <= T (exact matches allowed), 0 when there is none.
BackwardIdx(right, T) ==
    LET C == {j \in 1..Len(right) : right[j].datetime <= T} IN
    IF C = {} THEN 0 ELSE Max(C)

\* index of the first right row whose key is >= T, 0 when there is none
ForwardIdx(right, T) ==
    LET C == {j \in 1..Len(right) : right[j].datetime >= T} IN
    IF C = {} THEN 0 ELSE Min(C)

\* merge_asof(direction='nearest', tolerance=tol): the backward and the
\* forward candidate are each dropped when farther than tol; of two
\* candidates the backward one wins unless the forward one is closer.
NearestIdx(right, T, tol) ==
    LET b0 == BackwardIdx(right, T)
        f0 == ForwardIdx(right, T)
        b == IF b0 # 0 /\ T - right[b0].datetime > tol THEN 0 ELSE b0
        f == IF f0 # 0 /\ right[f0].datetime - T > tol THEN 0 ELSE f0
    IN  IF b # 0 /\ f # 0
        THEN IF T - right[b].datetime <= right[f].datetime - T THEN b ELSE f
        ELSE IF b # 0 THEN b ELSE f

\* mutant of MergeAsofBackward: an inner join, left rows without a match
\* are dropped
MergeAsofBackward_Inner(left, right, col) ==
    LET Matched(r) == BackwardIdx(right, r.datetime) # 0
        kept == SelectSeq(left, Matched)
    IN  [i \in 1..Len(kept) |->
            LET j == BackwardIdx(right, kept[i].datetime) IN
            WithColumn(kept[i], col, Val(right[j][col]))]

\* pd.merge_asof(left, right, on='datetime', direction='backward'): a left
\* join, one output row per left row, the right column col added; NaN where
\* no right row matches.
MergeAsofBackward(left, right, col) ==
    [i \in 1..Len(left) |->
        LET j == BackwardIdx(right, left[i].datetime) IN
        WithColumn(left[i], col, IF j = 0 THEN NaN ELSE Val(right[j][col]))]

\* mutant of MergeAsofNearest: a matched row takes the key of the right row
MergeAsofNearest_RightKey(left, right, col, tol) ==
    [i \in 1..Len(left) |->
        LET j == NearestIdx(right, left[i].datetime, tol) IN
        IF j = 0 THEN WithColumn(left[i], col, NaN)
        ELSE WithColumn(WithColumn(left[i], col, Val(right[j][col])),
                        "datetime", right[j].datetime)]

\* pd.merge_asof(left, right, on='datetime', direction='nearest',
\*               tolerance=tol)
MergeAsofNearest(left, right, col, tol) ==
    [i \in 1..Len(left) |->
        LET j == NearestIdx(right, left[i].datetime, tol) IN
        WithColumn(left[i], col, IF j = 0 THEN NaN ELSE Val(right[j][col]))]

\* df[col] = df[col].fillna(method='ffill'): a NaN cell takes the value of
\* the nearest earlier row that has one; leading NaN cells stay NaN.
RECURSIVE Ffill(_, _)
Ffill(rows, col) ==
    IF Len(rows) <= 1 THEN rows
    ELSE LET head == Ffill(SubSeq(rows, 1, Len(rows) - 1), col)
             last == rows[Len(rows)]
         IN  Append(head,
                    IF last[col].isna
                    THEN WithColumn(last, col, head[Len(head)][col])
                    ELSE last)

\* df[col] = v
AssignColumn(rows, col, v) ==
    [i \in 1..Len(rows) |-> WithColumn(rows[i], col, v)]

----------------------------------------------------------------------------
(* What the fetchers do with the records their pagination accumulated.     *)

\* one decoded candle of all_records; the five numeric columns carry v
CandleRec(t, v) ==
    [datetime |-> t, open |-> v, high |-> v, low |-> v, close |-> v,
     volume |-> v]

\* df['date'] = df['datetime'];
\* df = df[['date','datetime','open','high','low','close','volume']]
DateColumn(rows) ==
    [i \in 1..Len(rows) |-> WithColumn(rows[i], "date", rows[i].datetime)]

\* fetch_okx_candles after its loop: the frames it can return for all_records
OkxCandlesResult(all_records) ==
    IF all_records = <<>> THEN {<<>>}
    ELSE {DateColumn(s) : s \in SortValues(all_records)}

\* mutant of BinanceCandlesResult: sorted newest first
BinanceCandlesResult_Descending(all_records) ==
    IF all_records = <<>> THEN {<<>>}
    ELSE {DateColumn([i \in 1..Len(s) |-> s[Len(s) + 1 - i]]) :
            s \in SortValues(all_records)}

\* fetch_binance_candles after its loop
BinanceCandlesResult(all_records) ==
    IF all_records = <<>> THEN {<<>>}
    ELSE {DateColumn(s) : s \in SortValues(all_records)}

\* fetch_yfinance_candles on the hourly frame yf.download returned:
\* resample('4H') with open first, high max, low min, close last, volume sum
YfResample(rows) ==
    LET labels == BucketLabels(rows)
        In(b) == {i \in 1..Len(rows) : Bucket(rows[i].datetime) = b}
        RECURSIVE Sum(_)
        Sum(I) == IF I = {} THEN 0
                  ELSE LET i == Min(I) IN rows[i].volume + Sum(I \ {i})
    IN  [k \in 1..Len(labels) |->
            [datetime |-> labels[k],
             open   |-> FirstInBucket(rows, labels[k]).open,
             high   |-> Max({rows[i].high : i \in In(labels[k])}),
             low    |-> Min({rows[i].low : i \in In(labels[k])}),
             close  |-> LastInBucket(rows, labels[k]).close,
             volume |-> Sum(In(labels[k]))]]

YfinanceCandlesResult(rows) ==
    IF rows = <<>> THEN <<>> ELSE DateColumn(YfResample(rows))

\* fetch_funding_rate after its loop
FundingResult(all_records) ==
    IF all_records = <<>> THEN {<<>>} ELSE SortValues(all_records)

\* fetch_open_interest after its loop: sort the hourly records, resample
OpenInterestResult(all_records) ==
    IF all_records = <<>> THEN {<<>>}
    ELSE {ResampleLast(s) : s \in SortValues(all_records)}

----------------------------------------------------------------------------
(* Freshness gate and fusion, as main() computes them.                     *)

\* mutant of IsStale: an age of exactly MaxAgeHours is rejected too
IsStale_Inclusive(frame) == Now - MaxDatetime(frame) >= MaxAgeHours

\* mutant of IsStale: the limit is an hour too long
IsStale_Late(frame) == Now - MaxDatetime(frame) > MaxAgeHours + 1

\* age = now - df['datetime'].max();  age > timedelta(hours=12)
IsStale(frame) == Now - MaxDatetime(frame) > MaxAgeHours

\* lines 644-648
MergeFundingRate(frame, funding) ==
    IF funding # <<>>
    THEN Ffill(MergeAsofBackward(frame, funding, "funding_rate"),
               "funding_rate")
    ELSE AssignColumn(frame, "funding_rate", Val(0))

\* mutant of MergeOpenInterest: without a series the column is left missing
MergeOpenInterest_NoDefault(frame, oi) ==
    IF oi # <<>>
    THEN MergeAsofNearest(frame, oi, "open_interest", ToleranceHours)
    ELSE AssignColumn(frame, "open_interest", NaN)

\* lines 651-654
MergeOpenInterest(frame, oi) ==
    IF oi # <<>>
    THEN MergeAsofNearest(frame, oi, "open_interest", ToleranceHours)
    ELSE AssignColumn(frame, "open_interest", Val(0))

----------------------------------------------------------------------------
(* Inputs: the record lists the provider clients can accumulate.           *)

\* batch driver: candles that are stale, exactly MaxAgeHours old, current
DrvTimes == {Now - MaxAgeHours - 1, Now - MaxAgeHours, Now}
DrvCandleInputs == SeqsUpTo({CandleRec(t, 1) : t \in DrvTimes}, MaxRaw)
Drv1DInputs == SeqsUpTo({CandleRec(Now, 1)}, 1)
DrvFundingInputs ==
    SeqsUpTo({[datetime |-> Now - MaxAgeHours, funding_rate |-> 100]}, 1)
DrvOIInputs ==
    SeqsUpTo({[datetime |-> Now - MaxAgeHours, open_interest |-> 5]}, 1)

CallNames ==
    {"okx_4h", "okx_1d", "binance", "ccxt", "yfinance", "funding",
     "open_interest"}

NoRaw == [c \in CallNames |-> <<>>]

Assets == 1..MaxAssets

\* the cursor variable of an OKX loop: None, or the token taken from a row
NoCursor == [isset |-> FALSE, token |-> 0]
Cursor(t) == [isset |-> TRUE, token |-> t]

\* no pagination loop is being followed
PageIdle ==
    /\ fetcher = "none"
    /\ stage = 1
    /\ iteration = 0
    /\ requests = 0
    /\ ppc = "idle"
    /\ cursor = FALSE
    /\ got = FALSE
    /\ held = 0
    /\ consumed = 0
    /\ response = "none"
    /\ page = [n |-> 0, edge |-> FALSE, within |-> 0]
    /\ wire = <<>>
    /\ pos = 0
    /\ records = <<>>
    /\ after = NoCursor
    /\ sent = NoCursor

\* price_fetcher.py, lines 52-58: the result dict get_market_data starts from
Defaults ==
    [price |-> 0, change_24h |-> 0, rsi_4h |-> Val(50), funding_rate |-> 0,
     open_interest |-> 0]

SubFetches == {"ticker", "rsi", "funding_rate", "open_interest"}

\* no latest_analysis.json in the working directory
NoDoc == [exists |-> FALSE, readable |-> FALSE, ts |-> 0]

\* analyze_all requests that can be in progress at once
MaxHandlers == 2
Handlers == 1..MaxHandlers

IdleHandler == [pos |-> "idle", force |-> FALSE]

\* no snapshot call in progress and the server not started
SrvIdle ==
    /\ mpc = "idle"
    /\ result = Defaults
    /\ answers = [f \in SubFetches |-> "none"]
    /\ clock = 0
    /\ sched = "off"
    /\ wake_at = 0
    /\ child = "none"
    /\ doc = NoDoc
    /\ handlers = [h \in Handlers |-> IdleHandler]

----------------------------------------------------------------------------
(* main(): one action per statement group of the loop body.                *)

Init ==
    /\ pc = "okx_4h"
    /\ idx = 1
    /\ df_4h = <<>>
    /\ df = <<>>
    /\ fr_df = <<>>
    /\ oi_df = <<>>
    /\ raw = NoRaw
    /\ failure_count = 0
    /\ csv_4h = [a \in Assets |-> Old]
    /\ csv_1d = [a \in Assets |-> Old]
    /\ calls = <<>>
    /\ failed = {}
    /\ exit_status = -1
    /\ outcome = [a \in Assets |-> "none"]
    /\ raised = {}
    /\ PageIdle
    /\ SrvIdle

\* lines 565-573: df_4h = fetch_okx_candles(symbol, bar="4H"); saved at once
\* when not empty
FetchOkx4H(inputs) ==
    /\ pc = "okx_4h"
    /\ \E recs \in inputs : \E res \in OkxCandlesResult(recs) :
        /\ df_4h' = res
        /\ raw' = [raw EXCEPT !["okx_4h"] = recs]
        /\ csv_4h' = IF res # <<>>
                     THEN [csv_4h EXCEPT ![idx] = Written(res)]
                     ELSE csv_4h
    /\ calls' = Append(calls, "okx_4h")
    /\ pc' = "okx_1d"
    /\ UNCHANGED <<idx, df, fr_df, oi_df, failure_count, csv_1d, failed,
                   exit_status, outcome, raised>>
    /\ UNCHANGED <<pagevars, srvvars>>

\* lines 576-583: df_1d = fetch_okx_candles(symbol, bar="1D")
FetchOkx1D(inputs) ==
    /\ pc = "okx_1d"
    /\ \E recs \in inputs : \E res \in OkxCandlesResult(recs) :
        /\ raw' = [raw EXCEPT !["okx_1d"] = recs]
        /\ csv_1d' = IF res # <<>>
                     THEN [csv_1d EXCEPT ![idx] = Written(res)]
                     ELSE csv_1d
    /\ calls' = Append(calls, "okx_1d")
    /\ pc' = "binance"
    /\ UNCHANGED <<idx, df_4h, df, fr_df, oi_df, failure_count, csv_4h,
                   failed, exit_status, outcome, raised>>
    /\ UNCHANGED <<pagevars, srvvars>>

\* lines 79-94: a row of a candle page that int()/float() cannot decode
\* raises out of fetch_okx_candles and out of main(), which has no handler
OkxDecodeError ==
    /\ pc \in {"okx_4h", "okx_1d"}
    /\ calls' = Append(calls, pc)
    /\ pc' = "crashed"
    /\ exit_status' = 1
    /\ raised' = raised \cup {pc}
    /\ UNCHANGED <<idx, df_4h, df, fr_df, oi_df, raw, failure_count, csv_4h,
                   csv_1d, failed, outcome>>
    /\ UNCHANGED <<pagevars, srvvars>>

\* lines 590-597: df = df_4h; if df.empty: df = fetch_binance_candles(...)
TryBinance(inputs) ==
    /\ pc = "binance"
    /\ IF df_4h = <<>>
       THEN /\ \E recs \in inputs : \E res \in BinanceCandlesResult(recs) :
                /\ df' = res
                /\ raw' = [raw EXCEPT !["binance"] = recs]
            /\ calls' = Append(calls, "binance")
       ELSE /\ df' = df_4h
            /\ UNCHANGED <<raw, calls>>
    /\ pc' = "yfinance"
    /\ UNCHANGED <<idx, df_4h, fr_df, oi_df, failure_count, csv_4h, csv_1d,
                   failed, exit_status, outcome, raised>>
    /\ UNCHANGED <<pagevars, srvvars>>

\* lines 600-603: if df.empty: df = fetch_yfinance_candles(...)
TryYfinance(inputs) ==
    /\ pc = "yfinance"
    /\ IF df = <<>>
       THEN /\ \E rows \in inputs :
                /\ df' = YfinanceCandlesResult(rows)
                /\ raw' = [raw EXCEPT !["yfinance"] = rows]
            /\ calls' = Append(calls, "yfinance")
       ELSE UNCHANGED <<df, raw, calls>>
    /\ pc' = "freshness"
    /\ UNCHANGED <<idx, df_4h, fr_df, oi_df, failure_count, csv_4h, csv_1d,
                   failed, exit_status, outcome, raised>>
    /\ UNCHANGED <<pagevars, srvvars>>

\* mutant of CheckFreshness: a stale series sends main() back to the last
\* provider before the asset is given up
CheckFreshness_Retry ==
    /\ pc = "freshness"
    /\ IF df # <<>> /\ IsStale(df)
       THEN /\ df' = <<>>
            /\ pc' = IF "yfinance" \in Range(calls) THEN "next" ELSE "yfinance"
            /\ failure_count' =
                  IF "yfinance" \in Range(calls) THEN failure_count + 1
                  ELSE failure_count
            /\ failed' = IF "yfinance" \in Range(calls) THEN failed \cup {idx}
                         ELSE failed
            /\ outcome' = IF "yfinance" \in Range(calls)
                          THEN [outcome EXCEPT ![idx] = "stale"]
                          ELSE outcome
       ELSE IF df = <<>>
       THEN /\ failure_count' = failure_count + 1
            /\ failed' = failed \cup {idx}
            /\ outcome' = [outcome EXCEPT ![idx] = "empty"]
            /\ pc' = "next"
            /\ UNCHANGED df
       ELSE /\ pc' = "save_intermediate"
            /\ UNCHANGED <<df, failure_count, failed, outcome>>
    /\ UNCHANGED <<idx, df_4h, fr_df, oi_df, raw, csv_4h, csv_1d, calls,
                   exit_status, raised>>
    /\ UNCHANGED <<pagevars, srvvars>>

\* lines 605-619: the freshness check and the emptiness check; either one
\* counts a failure and continues with the next asset
CheckFreshness ==
    /\ pc = "freshness"
    /\ IF df # <<>> /\ IsStale(df)
       THEN /\ df' = <<>>
            /\ failure_count' = failure_count + 1
            /\ failed' = failed \cup {idx}
            /\ outcome' = [outcome EXCEPT ![idx] = "stale"]
            /\ pc' = "next"
       ELSE IF df = <<>>
       THEN /\ failure_count' = failure_count + 1
            /\ failed' = failed \cup {idx}
            /\ outcome' = [outcome EXCEPT ![idx] = "empty"]
            /\ pc' = "next"
            /\ UNCHANGED df
       ELSE /\ pc' = "save_intermediate"
            /\ UNCHANGED <<df, failure_count, failed, outcome>>
    /\ UNCHANGED <<idx, df_4h, fr_df, oi_df, raw, csv_4h, csv_1d, calls,
                   exit_status, raised>>
    /\ UNCHANGED <<pagevars, srvvars>>

\* lines 621-624: df.to_csv(output_path)
SaveIntermediate ==
    /\ pc = "save_intermediate"
    /\ csv_4h' = [csv_4h EXCEPT ![idx] = Written(df)]
    /\ pc' = "funding"
    /\ UNCHANGED <<idx, df_4h, df, fr_df, oi_df, raw, failure_count, csv_1d,
                   calls, failed, exit_status, outcome, raised>>
    /\ UNCHANGED <<pagevars, srvvars>>

\* mutant of FetchFunding: the funding request does not wait for the
\* freshness check of a series that has rows
FetchFunding_Unchecked(inputs) ==
    /\ pc = "funding" \/ (pc = "freshness" /\ df # <<>>)
    /\ \/ \E recs \in inputs : \E res \in FundingResult(recs) :
            /\ fr_df' = res
            /\ raw' = [raw EXCEPT !["funding"] = recs]
            /\ UNCHANGED raised
       \/ /\ fr_df' = <<>>
          /\ raised' = raised \cup {"funding"}
          /\ UNCHANGED raw
    /\ calls' = Append(calls, "funding")
    /\ pc' = "open_interest"
    /\ UNCHANGED <<idx, df_4h, df, oi_df, failure_count, csv_4h, csv_1d,
                   failed, exit_status, outcome>>
    /\ UNCHANGED <<pagevars, srvvars>>

\* lines 626-631: fr_df = fetch_funding_rate(...), empty when it raises
FetchFunding(inputs) ==
    /\ pc = "funding"
    /\ \/ \E recs \in inputs : \E res \in FundingResult(recs) :
            /\ fr_df' = res
            /\ raw' = [raw EXCEPT !["funding"] = recs]
            /\ UNCHANGED raised
       \/ /\ fr_df' = <<>>
          /\ raised' = raised \cup {"funding"}
          /\ UNCHANGED raw
    /\ calls' = Append(calls, "funding")
    /\ pc' = "open_interest"
    /\ UNCHANGED <<idx, df_4h, df, oi_df, failure_count, csv_4h, csv_1d,
                   failed, exit_status, outcome>>
    /\ UNCHANGED <<pagevars, srvvars>>

\* lines 633-641: oi_df = fetch_open_interest(...), empty when it raises
FetchOpenInterest(inputs) ==
    /\ pc = "open_interest"
    /\ \/ \E recs \in inputs : \E res \in OpenInterestResult(recs) :
            /\ oi_df' = res
            /\ raw' = [raw EXCEPT !["open_interest"] = recs]
            /\ UNCHANGED raised
       \/ /\ oi_df' = <<>>
          /\ raised' = raised \cup {"open_interest"}
          /\ UNCHANGED raw
    /\ calls' = Append(calls, "open_interest")
    /\ pc' = "merge_funding"
    /\ UNCHANGED <<idx, df_4h, df, fr_df, failure_count, csv_4h, csv_1d,
                   failed, exit_status, outcome>>
    /\ UNCHANGED <<pagevars, srvvars>>

\* lines 643-648
MergeFunding ==
    /\ pc = "merge_funding"
    /\ df' = MergeFundingRate(df, fr_df)
    /\ pc' = "merge_oi"
    /\ UNCHANGED <<idx, df_4h, fr_df, oi_df, raw, failure_count, csv_4h,
                   csv_1d, calls, failed, exit_status, outcome, raised>>
    /\ UNCHANGED <<pagevars, srvvars>>

\* lines 650-654
MergeOI ==
    /\ pc = "merge_oi"
    /\ df' = MergeOpenInterest(df, oi_df)
    /\ pc' = "save_final"
    /\ UNCHANGED <<idx, df_4h, fr_df, oi_df, raw, failure_count, csv_4h,
                   csv_1d, calls, failed, exit_status, outcome, raised>>
    /\ UNCHANGED <<pagevars, srvvars>>

\* lines 656-660: df.to_csv(output_path); time.sleep(1)
SaveFinal ==
    /\ pc = "save_final"
    /\ csv_4h' = [csv_4h EXCEPT ![idx] = Written(df)]
    /\ outcome' = [outcome EXCEPT ![idx] = "fused"]
    /\ pc' = "next"
    /\ UNCHANGED <<idx, df_4h, df, fr_df, oi_df, raw, failure_count, csv_1d,
                   calls, failed, exit_status, raised>>
    /\ UNCHANGED <<pagevars, srvvars>>

\* line 559: the for loop takes the next symbol.  The loop body assigns
\* df_4h, df, fr_df and oi_df before it reads them, so the values left by
\* the previous asset are dropped here.
NextAsset ==
    /\ pc = "next"
    /\ idx' = idx + 1
    /\ pc' = IF idx < MaxAssets THEN "okx_4h" ELSE "end"
    /\ df_4h' = <<>>
    /\ df' = <<>>
    /\ fr_df' = <<>>
    /\ oi_df' = <<>>
    /\ raw' = NoRaw
    /\ calls' = <<>>
    /\ raised' = {}
    /\ csv_4h' = [csv_4h EXCEPT ![idx] = Closed(@)]
    /\ csv_1d' = [csv_1d EXCEPT ![idx] = Closed(@)]
    /\ UNCHANGED <<failure_count, failed, exit_status, outcome>>
    /\ UNCHANGED <<pagevars, srvvars>>

\* lines 662-666: sys.exit(1) when failure_count > 0
Finish ==
    /\ pc = "end"
    /\ exit_status' = IF failure_count > 0 THEN 1 ELSE 0
    /\ pc' = "done"
    /\ UNCHANGED <<idx, df_4h, df, fr_df, oi_df, raw, failure_count, csv_4h,
                   csv_1d, calls, failed, outcome, raised>>
    /\ UNCHANGED <<pagevars, srvvars>>

Next ==
    \/ FetchOkx4H(DrvCandleInputs)
    \/ FetchOkx1D(Drv1DInputs)
    \/ OkxDecodeError
    \/ TryBinance(DrvCandleInputs)
    \/ TryYfinance(DrvCandleInputs)
    \/ CheckFreshness
    \/ SaveIntermediate
    \/ FetchFunding(DrvFundingInputs)
    \/ FetchOpenInterest(DrvOIInputs)
    \/ MergeFunding
    \/ MergeOI
    \/ SaveFinal
    \/ NextAsset
    \/ Finish

Spec == Init /\ [][Next]_vars

----------------------------------------------------------------------------
(* The fusion steps of main() (lines 626-658) on richer inputs.  The run   *)
(* is taken up where the last asset's candle series has just been accepted *)
(* and saved; the assets before it found every provider empty.             *)

FuseCandleTimes == {9, 10, 11, 12, 15}
FuseFundingRecs ==
    {[datetime |-> 10, funding_rate |-> 100],
     [datetime |-> 14, funding_rate |-> -200],
     [datetime |-> 14, funding_rate |-> 100]}
FuseOIRecs ==
    {[datetime |-> 9, open_interest |-> 5],
     [datetime |-> 12, open_interest |-> 7],
     [datetime |-> 15, open_interest |-> 6]}

FuseCandleInputs ==
    {s \in SeqsUpTo({CandleRec(t, 1) : t \in FuseCandleTimes}, MaxCandles) :
        IsAscending(s)}
FuseFundingInputs == SeqsUpTo(FuseFundingRecs, MaxAux)
FuseOIInputs == SeqsUpTo(FuseOIRecs, MaxAux)

InitFuse ==
    /\ pc = "funding"
    /\ idx = MaxAssets
    /\ \E recs \in FuseCandleInputs :
        /\ recs # <<>>
        /\ ~IsStale(recs)
        /\ df_4h = DateColumn(recs)
        /\ df = DateColumn(recs)
        /\ raw = [NoRaw EXCEPT !["okx_4h"] = recs]
        /\ csv_4h = [a \in Assets |->
                        IF a = MaxAssets THEN Written(DateColumn(recs))
                        ELSE Old]
    /\ fr_df = <<>>
    /\ oi_df = <<>>
    /\ failure_count = MaxAssets - 1
    /\ csv_1d = [a \in Assets |-> Old]
    /\ calls = <<"okx_4h", "okx_1d">>
    /\ failed = 1..(MaxAssets - 1)
    /\ exit_status = -1
    /\ outcome = [a \in Assets |-> IF a < MaxAssets THEN "empty" ELSE "none"]
    /\ raised = {}
    /\ PageIdle
    /\ SrvIdle

NextFuse ==
    \/ FetchFunding(FuseFundingInputs)
    \/ FetchOpenInterest(FuseOIInputs)
    \/ MergeFunding
    \/ MergeOI
    \/ SaveFinal
    \/ NextAsset
    \/ Finish

SpecFuse == InitFuse /\ [][NextFuse]_vars

----------------------------------------------------------------------------
(* Claims about fusion (SpecFuse).                                         *)

\* the accepted candle series of the current asset, as saved by the
\* intermediate df.to_csv, while the frame df is being fused
Backbone == csv_4h[idx].rows

Merged == pc \in {"merge_oi", "save_final"}
Fused == pc = "save_final"

\* the records of all_records with the greatest datetime <= T
LatestUpTo(recs, T) ==
    {j \in 1..Len(recs) :
        /\ recs[j].datetime <= T
        /\ \A k \in 1..Len(recs) :
              recs[k].datetime <= T => recs[k].datetime <= recs[j].datetime}

HasRepeatedDatetime(recs) ==
    \E j, k \in 1..Len(recs) : j # k /\ recs[j].datetime = recs[k].datetime

Abs(n) == IF n < 0 THEN -n ELSE n

\* C2: the fused frame has exactly as many rows as the accepted candle
\* series, after the funding merge and after the open-interest merge,
\* whatever the funding and open-interest series hold.
C2_FusedRowCount == Merged => Len(df) = Len(Backbone)

C2_Witness ==
    /\ Fused
    /\ Len(df) >= 2
    /\ HasRepeatedDatetime(fr_df)
    /\ HasRepeatedDatetime(raw["open_interest"])
    /\ oi_df # <<>>

\* C3: every row whose datetime T has a funding record at or before it
\* carries the rate of a funding record with the greatest datetime <= T.
C3_FundingBackwardAsof ==
    Merged =>
        \A i \in 1..Len(df) :
            LET E == LatestUpTo(raw["funding"], df[i].datetime) IN
            E # {} =>
                \E j \in E :
                    df[i].funding_rate = Val(raw["funding"][j].funding_rate)

\* a row matched by a record at exactly its datetime while a later record
\* exists, and another row matched by an earlier record
C3_Witness ==
    /\ Merged
    /\ \E i \in 1..Len(df) : \E j, k \in 1..Len(fr_df) :
          /\ fr_df[j].datetime = df[i].datetime
          /\ fr_df[k].datetime > df[i].datetime
          /\ df[i].funding_rate = Val(fr_df[j].funding_rate)
    /\ \E i \in 1..Len(df) : \E j \in 1..Len(fr_df) :
          /\ fr_df[j].datetime < df[i].datetime
          /\ df[i].funding_rate = Val(fr_df[j].funding_rate)

\* C4: with a non-empty funding series, a row that precedes every funding
\* record gets funding_rate 0.0.
C4_LeadingGapIsZero ==
    Merged =>
        \A i \in 1..Len(df) :
            (/\ raw["funding"] # <<>>
             /\ LatestUpTo(raw["funding"], df[i].datetime) = {})
            => df[i].funding_rate = Val(0)

\* C5: with a non-empty open-interest series, a row with no open-interest
\* record within ToleranceHours of its datetime gets open_interest 0.0.
C5_NoMatchIsZero ==
    Fused =>
        \A i \in 1..Len(df) :
            (/\ oi_df # <<>>
             /\ \A j \in 1..Len(oi_df) :
                   Abs(oi_df[j].datetime - df[i].datetime) > ToleranceHours)
            => df[i].open_interest = Val(0)

\* C6: every non-zero open_interest of a fused row is the value of a record
\* the provider stamped within ToleranceHours of the row's datetime.
C6_ValueFromRecordWithinTolerance ==
    Fused =>
        \A i \in 1..Len(df) :
            (~df[i].open_interest.isna /\ df[i].open_interest.val # 0)
            => \E j \in 1..Len(raw["open_interest"]) :
                  /\ Abs(raw["open_interest"][j].datetime - df[i].datetime)
                        <= ToleranceHours
                  /\ raw["open_interest"][j].open_interest
                        = df[i].open_interest.val

\* columns of the candle series the fetchers return (line 119)
CandleColumns ==
    {"date", "datetime", "open", "high", "low", "close", "volume"}

\* frame b has the rows of frame a, in the same order, with the same
\* values in the candle columns
SameCandles(a, b) ==
    /\ Len(b) = Len(a)
    /\ \A i \in 1..Len(a) : \A c \in CandleColumns : b[i][c] = a[i][c]

\* a fusion step of main(): each merge keeps the candle columns of df, and
\* the final save writes them as the intermediate save had written them
FusionStepKeepsCandles ==
    /\ pc \in {"merge_funding", "merge_oi"} => SameCandles(df, df')
    /\ pc = "save_final" => SameCandles(csv_4h[idx].rows, csv_4h'[idx].rows)

\* C32: fusion leaves the candle backbone unchanged: after each merge and
\* in the fused file, every row has the date, datetime, open, high, low,
\* close and volume of the accepted candle series at the same position,
\* and there are as many rows, in the same order.
C32_FusionKeepsBackbone ==
    /\ [][FusionStepKeepsCandles]_vars
    /\ [](Merged => (SameCandles(df_4h, df) /\ SameCandles(Backbone, df)))
    /\ []((pc = "next" /\ outcome[idx] = "fused") =>
            SameCandles(df_4h, csv_4h[idx].rows))

\* a fused file of several rows, some repeating a datetime, with a matched
\* funding rate and a matched open interest
C32_Witness ==
    /\ pc = "next"
    /\ outcome[idx] = "fused"
    /\ Len(csv_4h[idx].rows) >= 3
    /\ HasRepeatedDatetime(csv_4h[idx].rows)
    /\ \E i \in 1..Len(csv_4h[idx].rows) :
          /\ csv_4h[idx].rows[i].funding_rate \notin {NaN, Val(0)}
          /\ csv_4h[idx].rows[i].open_interest \notin {NaN, Val(0)}

----------------------------------------------------------------------------
(* Claims about the batch driver (Spec).                                   *)

Age(frame) == Now - MaxDatetime(frame)

Attempted(c) == c \in Range(calls)

\* c is called before d whenever both are called
CalledBefore(c, d) ==
    \A i, j \in 1..Len(calls) : (calls[i] = c /\ calls[j] = d) => i < j

\* frame holds the records recs, in their order, with their values
SameRecords(frame, recs) ==
    /\ Len(frame) = Len(recs)
    /\ \A i \in 1..Len(recs) : \A c \in DOMAIN recs[i] :
          frame[i][c] = recs[i][c]

\* C7: at the freshness check a non-empty series aged at most MaxAgeHours
\* (exactly MaxAgeHours included) is accepted and goes on to be saved and
\* fused without a failure being counted; an older one makes the asset
\* failed, counts one failure and ends the asset, whose file then never
\* holds a fused dataset.
C7_FreshnessGate ==
    /\ [][(pc = "freshness" /\ df # <<>>) =>
            IF Age(df) <= MaxAgeHours
            THEN /\ pc' = "save_intermediate"
                 /\ df' = df
                 /\ failed' = failed
                 /\ failure_count' = failure_count
            ELSE /\ pc' = "next"
                 /\ idx \in failed'
                 /\ failure_count' = failure_count + 1]_vars
    /\ []((pc = "next" /\ idx \in failed) =>
            /\ df = <<>>
            /\ "funding_rate" \notin csv_4h[idx].cols
            /\ "open_interest" \notin csv_4h[idx].cols)

C7_Witness ==
    /\ pc = "save_intermediate"
    /\ Age(df) = MaxAgeHours

\* C8: when OKX returned nothing and the records Binance returned are in
\* strictly ascending order and pass the freshness check, the backbone (the
\* frame handed on, and the file saved from it) holds exactly those
\* records, in the same order and with the same values.
C8_SecondaryBackbone ==
    (/\ pc \in {"save_intermediate", "funding"}
     /\ df_4h = <<>>
     /\ raw["binance"] # <<>>
     /\ IsStrictlyAscending(raw["binance"]))
    => /\ SameRecords(df, raw["binance"])
       /\ pc = "funding" => SameRecords(Backbone, raw["binance"])

C8_Witness ==
    /\ pc = "funding"
    /\ df_4h = <<>>
    /\ Len(raw["binance"]) >= 2
    /\ IsStrictlyAscending(raw["binance"])
    /\ ~Attempted("yfinance")

\* C9: when the provider attempts of an asset are over, OKX was tried
\* first, and Binance, CCXT and yfinance were tried, in this order, exactly
\* when every provider before them had returned an empty series.
C9_ProviderOrder ==
    pc = "freshness" =>
        /\ Attempted("okx_4h")
        /\ Attempted("binance") <=> df_4h = <<>>
        /\ Attempted("ccxt") <=> (df_4h = <<>> /\ raw["binance"] = <<>>)
        /\ Attempted("yfinance") <=>
              (df_4h = <<>> /\ raw["binance"] = <<>> /\ raw["ccxt"] = <<>>)
        /\ CalledBefore("okx_4h", "binance")
        /\ CalledBefore("binance", "ccxt")
        /\ CalledBefore("ccxt", "yfinance")

\* C10 as claimed: the provider sequence goes on until a series is both
\* non-empty and fresh, so an asset is given up only after the last
\* provider, yfinance, has been tried.  (Every provider of the model can
\* answer a fresh series to any request, so a later provider that would
\* have returned one exists in every state where the asset is given up.)
C10_FallbackUntilFresh ==
    (pc = "next" /\ idx \in failed) => Attempted("yfinance")

\* C10 as amended: the provider sequence goes on only while the series is
\* empty; a non-empty series from OKX that turns out older than
\* MaxAgeHours ends the asset as failed with no other provider tried.
C10_StalePrimaryNotRetried ==
    (/\ pc \in {"freshness", "next"}
     /\ df_4h # <<>>
     /\ Age(df_4h) > MaxAgeHours)
    => /\ ~Attempted("binance")
       /\ ~Attempted("ccxt")
       /\ ~Attempted("yfinance")
       /\ pc = "next" => (idx \in failed /\ df = <<>>)

C10_Witness ==
    /\ pc = "next"
    /\ df_4h # <<>>
    /\ Age(df_4h) > MaxAgeHours
    /\ idx \in failed

\* main() has returned, exited or died of an unhandled exception
RunEnded == pc \in {"done", "crashed"}

\* the assets for which the run saved a fused dataset
FusedAssets == {a \in Assets : outcome[a] = "fused"}

\* C11: when the run has ended and every candle provider had returned an
\* empty series for some asset, that asset is marked failed, every asset
\* of symbols has been processed to its end (failed or fused), and the
\* exit status is non-zero.
C11_EmptyAssetDoesNotStopRun ==
    RunEnded =>
        \A a \in Assets :
            outcome[a] = "empty" =>
                /\ a \in failed
                /\ \A b \in Assets : outcome[b] # "none"
                /\ exit_status > 0

\* C12: when the run has ended, failure_count is the number of assets
\* without a fused dataset, every failed asset is counted once, and the
\* exit status is 1 exactly when failure_count >= 1 and 0 otherwise.
C12_FailureCountAndExitStatus ==
    RunEnded =>
        /\ failure_count = Cardinality(Assets \ FusedAssets)
        /\ failure_count = Cardinality(failed)
        /\ exit_status = (IF failure_count >= 1 THEN 1 ELSE 0)

\* C13: the run ends, and the exit status is set, only after the loop has
\* gone through every asset of symbols.
C13_NoAbortMidRun ==
    (RunEnded \/ exit_status # -1) => idx = MaxAssets + 1

\* header of a fused <coin>_4h.csv
NineColumns ==
    {"date", "datetime", "open", "high", "low", "close", "volume",
     "funding_rate", "open_interest"}

\* C19: in every state of the run, a <coin>_4h.csv that the run has written
\* carries all nine columns.
C19_ArtifactHasNineColumns ==
    \A a \in Assets : ~csv_4h[a].old => csv_4h[a].cols = NineColumns

\* positions of main() between the acceptance of the candle series and the
\* final save
AuxSteps ==
    {"funding", "open_interest", "merge_funding", "merge_oi", "save_final"}

AllZero(rows, col) == \A i \in 1..Len(rows) : rows[i][col] = Val(0)

\* a step of main() taken inside the fusion steps
AuxStepKeepsAsset ==
    pc \in AuxSteps =>
        /\ failure_count' = failure_count
        /\ failed' = failed
        /\ pc' \in AuxSteps \cup {"next"}
        /\ pc' = "next" =>
              /\ outcome'[idx] = "fused"
              /\ csv_4h'[idx] = Written(df)
              /\ csv_4h'[idx].cols = NineColumns

\* C20: from the funding fetch of an accepted asset to its final save no
\* failure is counted and the asset is not marked failed, the next position
\* after the fusion steps is the one where the fused frame has been saved,
\* and when the funding (open-interest) fetch raised or returned an empty
\* series every row of the saved funding_rate (open_interest) column is 0.0.
C20_AuxiliaryFailureNonFatal ==
    /\ [][AuxStepKeepsAsset]_vars
    /\ [](pc \in {"merge_funding", "merge_oi", "save_final"} =>
            /\ "funding" \in raised => fr_df = <<>>
            /\ "open_interest" \in raised => oi_df = <<>>)
    /\ []((pc = "next" /\ outcome[idx] = "fused") =>
            /\ idx \notin failed
            /\ fr_df = <<>> => AllZero(csv_4h[idx].rows, "funding_rate")
            /\ oi_df = <<>> => AllZero(csv_4h[idx].rows, "open_interest"))

C20_Witness ==
    /\ pc = "next"
    /\ outcome[idx] = "fused"
    /\ "funding" \in raised
    /\ "open_interest" \notin raised
    /\ oi_df = <<>>
    /\ Len(csv_4h[idx].rows) >= 2
    /\ failure_count = 0

\* the calls of main() that fetch candles
CandleCalls == {"okx_4h", "okx_1d", "binance", "ccxt", "yfinance"}

IsCandleCall(c) == c \in CandleCalls

\* the freshness check of the current asset has run
Checked ==
    pc \in {"save_intermediate", "funding", "open_interest", "merge_funding",
            "merge_oi", "save_final", "next"}

\* the series the provider attempts of the current asset ended on
FinallySelected ==
    IF df_4h # <<>> THEN {df_4h}
    ELSE IF raw["binance"] # <<>> THEN BinanceCandlesResult(raw["binance"])
    ELSE {YfinanceCandlesResult(raw["yfinance"])}

\* the check is one step, which calls no provider, and once it has run no
\* step of the same asset comes back to it or calls a candle provider
CheckedOnceAfterProviders ==
    /\ pc = "freshness" => (Checked' /\ calls' = calls /\ idx' = idx)
    /\ (Checked /\ idx' = idx) =>
          /\ Checked'
          /\ SelectSeq(calls', IsCandleCall) = SelectSeq(calls, IsCandleCall)

\* C28: staleness is evaluated exactly once per asset, after the last
\* provider attempt and against the series finally selected: once the
\* freshness check has run for an asset, no candle provider is called
\* again for that asset in the run.
C28_FreshnessCheckedOnce ==
    /\ [][CheckedOnceAfterProviders]_vars
    /\ [](pc = "freshness" => df \in FinallySelected)
    /\ []((Checked /\ outcome[idx] = "stale") =>
            \E s \in FinallySelected : s # <<>> /\ Age(s) > MaxAgeHours)

C28_Witness ==
    /\ pc = "next"
    /\ outcome[idx] = "stale"
    /\ Attempted("yfinance")
    /\ failure_count = 2

\* this step issues the funding-rate or the open-interest request
AuxCallIssued ==
    /\ Len(calls') = Len(calls) + 1
    /\ calls'[Len(calls')] \in {"funding", "open_interest"}

\* the asset main() is working on has been persisted or marked failed
AssetSettled == outcome[idx] \in {"fused", "stale", "empty"}

SequentialSteps ==
    /\ AuxCallIssued =>
          /\ Checked
          /\ idx \notin failed
          /\ df # <<>>
          /\ Age(df) <= MaxAgeHours
          /\ Backbone # <<>>
          /\ MaxDatetime(Backbone) = MaxDatetime(df)
    /\ (idx' # idx /\ idx \in Assets) => AssetSettled

\* C29: the funding-rate and open-interest requests of an asset are issued
\* only after its candle series was accepted (non-empty and fresh), an
\* asset marked failed issues neither request, and no request for the
\* next asset is issued before the current asset has been persisted or
\* marked failed.
C29_SequentialAssets ==
    /\ [][SequentialSteps]_vars
    /\ []((idx \in Assets /\ idx \in failed) =>
            (~Attempted("funding") /\ ~Attempted("open_interest")))
    /\ [](\A a \in Assets : a < idx => outcome[a] # "none")

C29_Witness ==
    /\ idx = 2
    /\ outcome[1] = "stale"
    /\ Attempted("open_interest")
    /\ pc = "merge_funding"

\* C31: an asset marked failed (every provider empty, or the selected
\* series rejected as stale) has its <coin>_4h.csv exactly as it was before
\* the run: the run has not written it.
C31_FailedAssetKeepsArtifact ==
    \A a \in Assets : a \in failed => csv_4h[a] = Old

----------------------------------------------------------------------------
(* The pagination loops of the provider clients.  A page is described by   *)
(* what the loops read of it: n, its number of rows, edge, whether its     *)
(* last row lies beyond the point where the loop stops on its own (older   *)
(* than start_dt for the OKX fetchers, later than now for Binance and      *)
(* CCXT), and within, the number of its rows the loop appends.  The        *)
(* provider is free to answer any page to any request.  What a fetch has   *)
(* accumulated is followed page by page (held, consumed, got); the row-by- *)
(* row view of a page is the subject of SpecRows further down.             *)

\* for ... in range(...) of each capped loop
CandleCap == 50
FundingCap == 100
OpenInterestCap == 500
BinanceCap == 50
\* "limit" of each request
CandleLimit == 300
FundingLimit == 100
OpenInterestLimit == 100
BinanceLimit == 1000
CcxtOkxLimit == 100
CcxtBinanceLimit == 1000

\* requests after which the model stops following a loop that has no cap
MaxUncapped == 55

Fetchers ==
    {"fetch_okx_candles", "fetch_funding_rate", "fetch_open_interest",
     "fetch_binance_candles", "fetch_ccxt_candles", "fetch_yfinance_candles"}

\* pagination tokens told apart in the last row of a page
MaxTokens == 2
Tokens == 1..MaxTokens

\* a page with rows, as the loops of the OKX fetchers read it: within is
\* the number of its rows that were appended to all_records, the rows up
\* to the first one older than start_dt (lines 83-84, 158-159, 248-249),
\* token is the timestamp field of its last row (rows[-1])
HorizonPages(limit) ==
    {p \in [n : {1, limit - 1, limit}, edge : BOOLEAN,
            within : {0, 1, limit - 2, limit - 1, limit}, token : Tokens] :
        /\ p.within <= p.n
        /\ p.edge => p.within < p.n
        /\ (~p.edge /\ p.n = 1) => p.within = 1}

\* a page with rows of Binance or CCXT, whose loops append every row
Pages(limit) ==
    {p \in [n : {1, limit - 1, limit}, edge : BOOLEAN,
            within : {1, limit - 1, limit}] : p.within = p.n}

NoPage == [n |-> 0, edge |-> FALSE, within |-> 0]

\* what okx_get hands back as {} (lines 41-48), which the loops read as a
\* page without rows
OkxGetEmpty == {"empty", "transport_fault", "provider_fault"}

\* a pagination loop about to issue its first request
LoopStart ==
    /\ stage = 1
    /\ iteration = 0
    /\ requests = 0
    /\ ppc = "request"
    /\ cursor = FALSE
    /\ got = FALSE
    /\ held = 0
    /\ consumed = 0
    /\ response = "none"
    /\ page = NoPage
    /\ wire = <<>>
    /\ pos = 0
    /\ records = <<>>
    /\ after = NoCursor
    /\ sent = NoCursor

InitPage ==
    /\ fetcher \in Fetchers
    /\ LoopStart
    /\ SrvIdle
    /\ pc = "okx_4h"
    /\ idx = 1
    /\ df_4h = <<>>
    /\ df = <<>>
    /\ fr_df = <<>>
    /\ oi_df = <<>>
    /\ raw = NoRaw
    /\ failure_count = 0
    /\ csv_4h = [a \in Assets |-> Old]
    /\ csv_1d = [a \in Assets |-> Old]
    /\ calls = <<>>
    /\ failed = {}
    /\ exit_status = -1
    /\ outcome = [a \in Assets |-> "none"]
    /\ raised = {}

\* the rows of page p are consumed by a loop
Consume(p) ==
    /\ page' = p
    /\ response' = "page"
    /\ got' = (got \/ p.within > 0)
    /\ held' = held + 1
    /\ consumed' = consumed + 1

\* mutant of CandleLoopEnds: a full page ends the loop too
CandleLoopEnds_OnFullPage(p) == p.edge \/ p.n <= CandleLimit

\* line 104: if oldest_dt < start_dt or len(rows) < 300: break
CandleLoopEnds(p) == p.edge \/ p.n < CandleLimit

\* mutant of SentCursor: the cursor is left out of every request
SentCursor_Never(a) == NoCursor

\* lines 69-70, 140-141, 211-212: if after: params["after"] = after.  A
\* token is a non-empty string, so the test fails for None only.
SentCursor(a) == IF a.isset THEN a ELSE NoCursor

\* fetch_okx_candles, lines 63-105: one pass of the loop body up to the
\* sleep.  okx_get turns a transport fault and a provider error code into
\* {}, which reads as an empty page.
OkxCandlesPage ==
    /\ fetcher = "fetch_okx_candles"
    /\ ppc = "request"
    /\ requests' = requests + 1
    /\ sent' = SentCursor(after)
    /\ \/ /\ response' \in OkxGetEmpty            \* not rows: break
          /\ ppc' = "returned"
          /\ UNCHANGED <<cursor, got, held, consumed, page, after>>
       \/ /\ response' = "undecodable"            \* int(row[0]) / float(row[k])
          /\ ppc' = "raised"
          /\ UNCHANGED <<cursor, got, held, consumed, page, after>>
       \/ \E p \in HorizonPages(CandleLimit) :
            /\ Consume(p)
            /\ after' = Cursor(p.token)
            /\ cursor' = TRUE                 \* after = rows[-1][0]
            /\ ppc' = IF CandleLoopEnds(p) THEN "returned" ELSE "sleep"
    /\ UNCHANGED <<fetcher, stage, iteration>>
    /\ UNCHANGED <<wire, pos, records>>
    /\ UNCHANGED <<drvvars, srvvars>>

\* fetch_funding_rate, lines 138-181
FundingPage ==
    /\ fetcher = "fetch_funding_rate"
    /\ ppc = "request"
    /\ requests' = requests + 1
    /\ sent' = SentCursor(after)
    /\ \/ /\ response' \in OkxGetEmpty            \* not rows: break
          /\ ppc' = "returned"
          /\ UNCHANGED <<cursor, got, held, consumed, page, after>>
       \/ /\ response' = "undecodable"            \* positional decoding fails
          /\ ppc' = "raised"
          /\ UNCHANGED <<cursor, got, held, consumed, page, after>>
       \/ \E p \in HorizonPages(FundingLimit) :
            /\ Consume(p)
            /\ after' = Cursor(p.token)
            /\ cursor' = TRUE                 \* after = str(last_ts)
            /\ ppc' = IF p.edge THEN "returned" ELSE "sleep"
    /\ UNCHANGED <<fetcher, stage, iteration>>
    /\ UNCHANGED <<wire, pos, records>>
    /\ UNCHANGED <<drvvars, srvvars>>

\* fetch_open_interest, lines 209-271
OpenInterestPage ==
    /\ fetcher = "fetch_open_interest"
    /\ ppc = "request"
    /\ requests' = requests + 1
    /\ sent' = SentCursor(after)
    /\ \/ /\ response' \in OkxGetEmpty            \* not rows, or odd payload
          /\ ppc' = "returned"
          /\ UNCHANGED <<cursor, got, held, consumed, page, after>>
       \/ /\ response' = "undecodable"            \* int(last_row.get('ts', 0))
          /\ ppc' = "raised"
          /\ UNCHANGED <<cursor, got, held, consumed, page, after>>
       \/ \E p \in HorizonPages(OpenInterestLimit) :
            /\ Consume(p)
            /\ after' = Cursor(p.token)
            /\ cursor' = TRUE                 \* end_ts = str(last_ts)
            /\ ppc' = IF p.edge THEN "returned" ELSE "sleep"
    /\ UNCHANGED <<fetcher, stage, iteration>>
    /\ UNCHANGED <<wire, pos, records>>
    /\ UNCHANGED <<drvvars, srvvars>>

\* fetch_binance_candles, lines 316-360: every exception of the loop body
\* is caught and ends the loop
BinancePage ==
    /\ fetcher = "fetch_binance_candles"
    /\ ppc = "request"
    /\ requests' = requests + 1
    /\ \/ /\ response' \in {"empty", "transport_fault"}   \* not data / except
          /\ ppc' = "returned"
          /\ UNCHANGED <<cursor, got, held, consumed, page>>
       \/ /\ response' = "undecodable"            \* except, inside "for row"
          /\ got' \in {got, TRUE}             \* the rows before it stay
          /\ ppc' = "returned"
          /\ UNCHANGED <<cursor, held, consumed, page>>
       \/ \E p \in Pages(BinanceLimit) :
            /\ Consume(p)
            /\ cursor' = TRUE                 \* current_start = close + 1
            /\ ppc' = IF p.edge THEN "returned" ELSE "sleep"
    /\ UNCHANGED <<fetcher, stage, iteration>>
    /\ UNCHANGED <<wire, pos, records, after, sent>>
    /\ UNCHANGED <<drvvars, srvvars>>

\* time.sleep(...) at the end of the loop body, then the for statement:
\* the next pass, or the end of the range
ThrottleSleep ==
    /\ ppc = "sleep"
    /\ iteration' = iteration + 1
    /\ ppc' = IF iteration + 1 <
                  (CASE fetcher = "fetch_okx_candles" -> CandleCap
                     [] fetcher = "fetch_funding_rate" -> FundingCap
                     [] fetcher = "fetch_open_interest" -> OpenInterestCap
                     [] fetcher = "fetch_binance_candles" -> BinanceCap)
              THEN "request" ELSE "returned"
    /\ UNCHANGED <<fetcher, stage, requests, cursor, got, held, consumed,
                   response, page>>
    /\ UNCHANGED <<wire, pos, records, after, sent>>
    /\ UNCHANGED <<drvvars, srvvars>>

\* fetch_ccxt_candles, lines 394-427 (stage 1) and 430-461 (stage 2): one
\* pass of a while True loop.  The loop ends on an empty page, on a page
\* that reaches the current time, or on an exception; stage 1 hands over
\* to stage 2 unless it collected candles.  An exception leaves the try
\* block, and with it the all_ohlcv collected in that stage.
CcxtPage ==
    /\ fetcher = "fetch_ccxt_candles"
    /\ ppc = "request"
    /\ requests < MaxUncapped
    /\ requests' = requests + 1
    /\ \/ /\ IF got \/ stage = 2              \* not ohlcv: break
             THEN ppc' = "returned" /\ UNCHANGED <<stage, iteration>>
             ELSE ppc' = "request" /\ stage' = 2 /\ iteration' = 0
          /\ response' = "empty"
          /\ UNCHANGED <<cursor, got, held, consumed, page>>
       \/ /\ IF stage = 2                     \* fetch_ohlcv raises
             THEN ppc' = "returned" /\ UNCHANGED <<stage, iteration>>
             ELSE ppc' = "request" /\ stage' = 2 /\ iteration' = 0
          /\ response' \in {"transport_fault", "provider_fault"}
          /\ cursor' = FALSE
          /\ got' = FALSE
          /\ held' = 0
          /\ UNCHANGED <<consumed, page>>
       \/ \E p \in Pages(IF stage = 1 THEN CcxtOkxLimit
                         ELSE CcxtBinanceLimit) :
            /\ Consume(p)
            /\ cursor' = TRUE                 \* since = ohlcv[-1][0] + 1
            /\ ppc' = IF p.edge THEN "returned" ELSE "request"
            /\ iteration' = IF p.edge THEN iteration ELSE iteration + 1
            /\ UNCHANGED stage
    /\ UNCHANGED fetcher
    /\ UNCHANGED <<wire, pos, records, after, sent>>
    /\ UNCHANGED <<drvvars, srvvars>>

\* fetch_yfinance_candles, lines 478-543: a single yf.download; an empty
\* download and an exception both return pd.DataFrame()
YfinanceDownload ==
    /\ fetcher = "fetch_yfinance_candles"
    /\ ppc = "request"
    /\ requests' = requests + 1
    /\ ppc' = "returned"
    /\ \E r \in {"page", "empty", "transport_fault"} :
        /\ response' = r
        /\ got' = (r = "page")
        /\ held' = IF r = "page" THEN 1 ELSE 0
        /\ consumed' = IF r = "page" THEN 1 ELSE 0
    /\ UNCHANGED <<fetcher, stage, iteration, cursor, page>>
    /\ UNCHANGED <<wire, pos, records, after, sent>>
    /\ UNCHANGED <<drvvars, srvvars>>

\* main(), lines 589-603, seen from the candle fetch that has returned:
\* a non-empty series is taken as the backbone, an empty one makes main()
\* call the next provider
MainFallback ==
    /\ fetcher \in {"fetch_okx_candles", "fetch_binance_candles"}
    /\ ppc = "returned"
    /\ IF got
       THEN /\ ppc' = "backbone"
            /\ UNCHANGED <<fetcher, stage, iteration, requests, cursor, got,
                           held, consumed, response, page, after, sent>>
       ELSE /\ fetcher' = IF fetcher = "fetch_okx_candles"
                          THEN "fetch_binance_candles"
                          ELSE "fetch_yfinance_candles"
            /\ stage' = 1
            /\ iteration' = 0
            /\ requests' = 0
            /\ ppc' = "request"
            /\ cursor' = FALSE
            /\ held' = 0
            /\ consumed' = 0
            /\ response' = "none"
            /\ page' = NoPage
            /\ after' = NoCursor
            /\ sent' = NoCursor
            /\ UNCHANGED got
    /\ UNCHANGED <<wire, pos, records>>
    /\ UNCHANGED <<drvvars, srvvars>>

NextPage ==
    \/ OkxCandlesPage
    \/ FundingPage
    \/ OpenInterestPage
    \/ BinancePage
    \/ ThrottleSleep
    \/ CcxtPage
    \/ YfinanceDownload
    \/ MainFallback

SpecPage == InitPage /\ [][NextPage]_vars

----------------------------------------------------------------------------
(* Claims about pagination (SpecPage).                                     *)

\* the iteration cap the specification gives each series type
RequestCap ==
    CASE fetcher = "fetch_funding_rate" -> FundingCap
      [] fetcher = "fetch_open_interest" -> OpenInterestCap
      [] OTHER -> CandleCap

\* C1: whatever pages the provider answers, a fetch call never issues more
\* page requests than the iteration cap of its series type.
C1_RequestsWithinCap == requests <= RequestCap

\* the fetch call is over: it has returned, and main() may have taken its
\* series as the backbone
FetchOver == ppc \in {"returned", "backbone"}

\* C14: when the latest page request of a provider client met a transport
\* fault, the fetch call is over with no further request, and the pages
\* received before the fault are all in the series it returns.
C14_TransportFaultKeepsPages ==
    response = "transport_fault" => (FetchOver /\ held = consumed)

\* C16: when a page request of the OKX candle fetch, the first or a later
\* one, came back with a provider error code, the fetch has ended on it as
\* on an empty page and main() does not take its series as the backbone:
\* the step main() takes from there is the call of the next provider.
C16_ProviderFaultFallsBack ==
    (fetcher = "fetch_okx_candles" /\ response = "provider_fault") =>
        ppc = "returned"

\* the OKX candle fetch has received one page with rows so far, a full
\* page whose rows all lie within the lookback horizon
FullFirstPage ==
    /\ fetcher = "fetch_okx_candles"
    /\ consumed = 1
    /\ page.n = CandleLimit
    /\ ~page.edge
    /\ page.within = CandleLimit

\* C17: after a first page of exactly CandleLimit rows within the horizon
\* the OKX candle fetch goes on to a second request, and when that request
\* comes back empty the fetch is over after exactly 2 requests and returns
\* the rows of the first page, all CandleLimit of them and no others.
C17_FullPageThenEmptyPage ==
    /\ (FullFirstPage /\ response = "page") =>
          (ppc \in {"sleep", "request"} /\ requests = 1)
    /\ (FullFirstPage /\ response = "empty") =>
          /\ FetchOver
          /\ requests = 2
          /\ held = 1
          /\ page.within = CandleLimit
          /\ got

C17_Witness ==
    /\ FullFirstPage
    /\ response = "empty"
    /\ ppc = "returned"
    /\ requests = 2
    /\ iteration = 1

\* the three OKX fetchers and the "limit" each of them requests
OkxFetchers ==
    {"fetch_okx_candles", "fetch_funding_rate", "fetch_open_interest"}

RequestedLimit ==
    CASE fetcher = "fetch_funding_rate" -> FundingLimit
      [] fetcher = "fetch_open_interest" -> OpenInterestLimit
      [] OTHER -> CandleLimit

\* the latest page of an OKX fetch had rows, fewer than the page size
ShortPageSeen ==
    /\ fetcher \in OkxFetchers
    /\ response = "page"
    /\ page.n < RequestedLimit

ShortPageEndsFetch == ShortPageSeen => requests' <= requests

\* C22: once a page of an OKX fetch (candles, funding, open interest) came
\* back with rows but fewer than the requested page size, that fetch issues
\* no further page request.
C22_ShortPageStop == [][ShortPageEndsFetch]_vars

\* the request just issued by an OKX fetcher carries no cursor when it is
\* the first of the fetch, and otherwise the token of the last row of the
\* page before it
CursorFollowsLastRow ==
    (fetcher \in OkxFetchers /\ requests' = requests + 1) =>
        sent' = IF requests = 0 THEN NoCursor ELSE Cursor(page.token)

\* C25: the first page request of an OKX fetch carries no cursor, and every
\* later one carries as cursor the pagination token (timestamp) of the
\* last, i.e. oldest, record of the immediately preceding page.
C25_CursorProtocol ==
    /\ [][CursorFollowsLastRow]_vars
    /\ []((fetcher \in OkxFetchers /\ requests = 1) => sent = NoCursor)

C25_Witness ==
    /\ fetcher = "fetch_open_interest"
    /\ requests = 3
    /\ consumed = 3
    /\ sent = Cursor(1)
    /\ after = Cursor(2)

\* the loops that carry their own time.sleep
SleepingLoops == Fetchers \ {"fetch_ccxt_candles", "fetch_yfinance_candles"}

\* a step that issues a page request is not followed at once by another
\* request to the same provider, and a sleep is followed by a request
ThrottleBetweenRequestsOnly ==
    /\ (fetcher \in SleepingLoops /\ requests' = requests + 1) =>
          ppc' # "request"
    /\ ppc = "sleep" => ppc' = "request"

\* C26: within one fetch a throttle sleep separates any two consecutive
\* page requests to the same provider, and no throttle sleep follows the
\* last page request of the fetch.
C26_ThrottleOrdering == [][ThrottleBetweenRequestsOnly]_vars

----------------------------------------------------------------------------
(* fetch_funding_rate row by row.  A row of a page is described by what    *)
(* the decoding reads of it: its shape (a dict or a list) and, for the     *)
(* timestamp and for the rate, whether the field is there and decodable.   *)

\* longest page and number of page requests followed row by row
MaxWireRows == 2
MaxRowRequests == 2
\* days, the configured lookback of the funding fetch, in hours
Lookback == 8
\* what the funding fetch adds to it (the 5 of days + 5), in hours
Margin == 2

\* start_dt = end_dt - timedelta(days=days + 5)
StartDt == Now - (Lookback + Margin)

\* a field of a row: "ok" with its value, "missing" (no such key, no such
\* index) or "bad" (there, but int() / float() raises ValueError on it)
FieldOk(v) == [st |-> "ok", v |-> v]
FieldMissing == [st |-> "missing", v |-> 0]
FieldBad == [st |-> "bad", v |-> 0]

WireTimes == {StartDt - 1, StartDt, Now}
WireRows ==
    [shape : {"dict", "list"},
     ts : {FieldOk(t) : t \in WireTimes} \cup {FieldMissing, FieldBad},
     rate : {FieldOk(100), FieldMissing, FieldBad}]
WirePages == SeqsUpTo(WireRows, MaxWireRows) \ {<<>>}

\* lines 151-153: ts = int(row.get('fundingTime', 0));
\* rate = float(row.get('fundingRate', 0)).  A list has no get
\* (AttributeError), an undecodable value raises ValueError; a missing key
\* reads as 0.
KeyedOk(row) ==
    row.shape = "dict" /\ row.ts.st # "bad" /\ row.rate.st # "bad"

\* lines 154-156: ts = int(row[4]); rate = float(row[2]), outside any try.
\* A dict raises KeyError, a short list IndexError, a bad value ValueError.
PositionalOk(row) ==
    row.shape = "list" /\ row.ts.st = "ok" /\ row.rate.st = "ok"

\* lines 150-156: keyed access first, positional access when it fails
DecodeFunding(row) ==
    IF KeyedOk(row) \/ PositionalOk(row)
    THEN [status |-> "ok", ts |-> row.ts.v, rate |-> row.rate.v]
    ELSE [status |-> "raise", ts |-> 0, rate |-> 0]

\* lines 171-176: last_ts of rows[-1]; the bare except falls back to
\* int(rows[-1][4]), which is outside any try
LastTs(row) ==
    IF row.shape = "dict" /\ row.ts.st # "bad"
    THEN [status |-> "ok", ts |-> row.ts.v]
    ELSE IF row.shape = "list" /\ row.ts.st = "ok"
    THEN [status |-> "ok", ts |-> row.ts.v]
    ELSE [status |-> "raise", ts |-> 0]

InitRows ==
    /\ fetcher = "fetch_funding_rate"
    /\ LoopStart
    /\ SrvIdle
    /\ pc = "funding"
    /\ idx = 1
    /\ df_4h = <<>>
    /\ df = <<>>
    /\ fr_df = <<>>
    /\ oi_df = <<>>
    /\ raw = NoRaw
    /\ failure_count = 0
    /\ csv_4h = [a \in Assets |-> Old]
    /\ csv_1d = [a \in Assets |-> Old]
    /\ calls = <<>>
    /\ failed = {}
    /\ exit_status = -1
    /\ outcome = [a \in Assets |-> "none"]
    /\ raised = {}

\* lines 139-147: one page request; {} from okx_get reads as no rows
FundingRequest ==
    /\ fetcher = "fetch_funding_rate"
    /\ ppc = "request"
    /\ requests < MaxRowRequests
    /\ requests' = requests + 1
    /\ \/ /\ response' \in OkxGetEmpty        \* not rows: break
          /\ ppc' = "returned"
          /\ UNCHANGED <<wire, pos, held, consumed>>
       \/ \E rows \in WirePages :
            /\ response' = "page"
            /\ wire' = rows
            /\ pos' = 1
            /\ held' = held + 1
            /\ consumed' = consumed + 1
            /\ ppc' = "decode"
    /\ sent' = SentCursor(after)
    /\ UNCHANGED <<fetcher, stage, iteration, cursor, got, page, records,
                   after>>
    /\ UNCHANGED <<drvvars, srvvars>>

\* lines 149-166: one pass of "for row in rows"
FundingDecodeRow ==
    /\ fetcher = "fetch_funding_rate"
    /\ ppc = "decode"
    /\ LET d == DecodeFunding(wire[pos]) IN
        IF d.status = "raise"
        THEN /\ ppc' = "raised"
             /\ response' = "undecodable"
             /\ UNCHANGED <<pos, records, got>>
        ELSE IF d.ts < StartDt                \* if dt < start_dt: break
        THEN /\ ppc' = "page_end"
             /\ UNCHANGED <<pos, records, got, response>>
        ELSE /\ records' = Append(records,
                    [datetime |-> d.ts, funding_rate |-> d.rate])
             /\ got' = TRUE
             /\ pos' = pos + 1
             /\ ppc' = IF pos < Len(wire) THEN "decode" ELSE "page_end"
             /\ UNCHANGED response
    /\ UNCHANGED <<fetcher, stage, iteration, requests, cursor, held,
                   consumed, page, wire, after, sent>>
    /\ UNCHANGED <<drvvars, srvvars>>

\* lines 169-181: the cursor from rows[-1], the horizon check, the sleep
FundingPageEnd ==
    /\ fetcher = "fetch_funding_rate"
    /\ ppc = "page_end"
    /\ LET l == LastTs(wire[Len(wire)]) IN
        IF l.status = "raise"
        THEN /\ ppc' = "raised"
             /\ response' = "undecodable"
             /\ UNCHANGED <<cursor, after>>
        ELSE /\ cursor' = TRUE                \* after = str(last_ts)
             /\ after' = Cursor(l.ts)
             /\ ppc' = IF l.ts < StartDt THEN "returned" ELSE "sleep"
             /\ UNCHANGED response
    /\ UNCHANGED <<fetcher, stage, iteration, requests, got, held, consumed,
                   page, wire, pos, records, sent>>
    /\ UNCHANGED <<drvvars, srvvars>>

NextRows ==
    \/ FundingRequest
    \/ FundingDecodeRow
    \/ FundingPageEnd
    \/ ThrottleSleep

SpecRows == InitRows /\ [][NextRows]_vars

\* a row the two accesses of the specification decode: every field it
\* reads is there and decodable
Decodable(row) == row.ts.st = "ok" /\ row.rate.st = "ok"

\* C15 for one step of the fetch.  A pass of "for row in rows" over a row
\* that neither access can decode (a keyed row without its timestamp or
\* rate key included) adds nothing to all_records and goes on to the row
\* after it, or to the end of the page after the last row; neither the
\* pass nor the end of the page raises out of the fetch.
SkipsUndecodableRow ==
    /\ (fetcher = "fetch_funding_rate" /\ ppc = "decode") =>
          /\ ppc' # "raised"
          /\ ~Decodable(wire[pos]) =>
                /\ records' = records
                /\ IF pos < Len(wire)
                   THEN ppc' = "decode" /\ pos' = pos + 1
                   ELSE ppc' = "page_end"
    /\ (fetcher = "fetch_funding_rate" /\ ppc = "page_end") =>
          ppc' # "raised"

\* C15: every step of the funding fetch decodes its row as claimed
C15_UndecodableRecordSkipped == [][SkipsUndecodableRow]_vars

\* C23: the series a funding fetch returns is strictly increasing in
\* timestamp, with no two records of the same timestamp, whatever pages
\* the provider sent (overlapping pages and a repeated page included).
C23_StrictlyIncreasingSeries ==
    (fetcher = "fetch_funding_rate" /\ ppc = "returned") =>
        \A s \in FundingResult(records) : IsStrictlyAscending(s)

\* now minus the configured number of lookback days
Horizon == Now - Lookback

\* C24: no record with a timestamp older than the horizon, now minus the
\* configured lookback, is ever appended to the series of the fetch.
C24_NothingOlderThanHorizon ==
    \A i \in 1..Len(records) : records[i].datetime >= Horizon

----------------------------------------------------------------------------
(* The open-interest fetch of main() on hourly runs: every hour of         *)
(* RunHours consecutive hours has one record.  The run is taken up where   *)
(* the last asset's candle series has been accepted and saved and the      *)
(* funding fetch has returned an empty series.                             *)

\* two bars of hourly records
RunHours == 2 * BarHours
StartHours == 0..(Now - RunHours)
RunValues == {5, 6}

\* the records of the run that starts at hour h, newest first as OKX
\* sends them, with the values v
HourlyRun(h, v) ==
    [i \in 1..RunHours |->
        [datetime |-> h + RunHours - i, open_interest |-> v[i]]]

\* hourly records with gaps between them, in any order: at most MaxSparse
\* records at hours that leave some buckets empty and share others
MaxSparse == 3
SparseHours == {Now - 15, Now - 13, Now - 12, Now - 4, Now - 3}
SparseInputs ==
    SeqsUpTo([datetime : SparseHours, open_interest : RunValues], MaxSparse)

ResampleInputs ==
    {HourlyRun(h, v) : h \in StartHours, v \in [1..RunHours -> RunValues]}
        \cup SparseInputs

InitResample ==
    /\ pc = "open_interest"
    /\ idx = MaxAssets
    /\ LET recs == <<CandleRec(Now - BarHours, 1), CandleRec(Now, 1)>> IN
        /\ df_4h = DateColumn(recs)
        /\ df = DateColumn(recs)
        /\ raw = [NoRaw EXCEPT !["okx_4h"] = recs]
        /\ csv_4h = [a \in Assets |->
                        IF a = MaxAssets THEN Written(DateColumn(recs))
                        ELSE Old]
    /\ fr_df = <<>>
    /\ oi_df = <<>>
    /\ failure_count = MaxAssets - 1
    /\ csv_1d = [a \in Assets |-> Old]
    /\ calls = <<"okx_4h", "okx_1d", "funding">>
    /\ failed = 1..(MaxAssets - 1)
    /\ exit_status = -1
    /\ outcome = [a \in Assets |-> IF a < MaxAssets THEN "empty" ELSE "none"]
    /\ raised = {}
    /\ PageIdle
    /\ SrvIdle

NextResample ==
    \/ FetchOpenInterest(ResampleInputs)
    \/ MergeFunding
    \/ MergeOI
    \/ SaveFinal
    \/ NextAsset
    \/ Finish

SpecResample == InitResample /\ [][NextResample]_vars

\* recs holds one record for every hour of RunHours consecutive hours
IsHourlyRun(recs) ==
    /\ Len(recs) = RunHours
    /\ \E h \in 0..Now :
          {recs[i].datetime : i \in 1..Len(recs)} = h..(h + RunHours - 1)

RunStart(recs) == Min({recs[i].datetime : i \in 1..Len(recs)})

\* the records of recs in the window of width BarHours that starts at b
InWindow(recs, b) ==
    {i \in 1..Len(recs) :
        b <= recs[i].datetime /\ recs[i].datetime < b + BarHours}

\* every resampled record carries the value of the latest hourly record
\* of the epoch-aligned window it is labelled with
EachIsLastOfWindow(recs, resampled) ==
    \A k \in 1..Len(resampled) :
        /\ resampled[k].datetime % BarHours = 0
        /\ \E i \in InWindow(recs, resampled[k].datetime) :
            /\ \A j \in InWindow(recs, resampled[k].datetime) :
                  recs[j].datetime <= recs[i].datetime
            /\ resampled[k].open_interest = recs[i].open_interest

\* C18 as claimed: an hourly run of RunHours (8) hours, whatever hour it
\* starts at, is resampled to exactly 2 records, each the last hourly
\* value of its window.
C18_TwoRecordsForAnyStart ==
    IsHourlyRun(raw["open_interest"]) =>
        /\ Len(oi_df) = 2
        /\ EachIsLastOfWindow(raw["open_interest"], oi_df)

\* C18 as amended: the run is resampled to exactly 2 records when its
\* first hour is a multiple of BarHours and to exactly 3 otherwise, each
\* the last hourly value of its epoch-aligned window.
C18_TwoRecordsForAlignedStart ==
    IsHourlyRun(raw["open_interest"]) =>
        /\ Len(oi_df) = (IF RunStart(raw["open_interest"]) % BarHours = 0
                         THEN 2 ELSE 3)
        /\ EachIsLastOfWindow(raw["open_interest"], oi_df)

C18_Witness ==
    /\ pc = "merge_funding"
    /\ IsHourlyRun(raw["open_interest"])
    /\ RunStart(raw["open_interest"]) = BarHours
    /\ Len(oi_df) = 2
    /\ oi_df[1].open_interest # oi_df[2].open_interest
    /\ \E i \in InWindow(raw["open_interest"], BarHours) :
          raw["open_interest"][i].open_interest # oi_df[1].open_interest

\* the left edges of the epoch-aligned windows up to now
AlignedStarts == {b \in 0..Now : b % BarHours = 0}

\* the resampled records labelled with the window that starts at b
LabelledWith(resampled, b) ==
    {k \in 1..Len(resampled) : resampled[k].datetime = b}

\* C27: whatever hourly records the open-interest fetch collected, the
\* resampled series has exactly one record for every epoch-aligned 4-hour
\* bucket that holds a record and none for a bucket that holds none, and
\* each resampled record carries the value of the latest-timestamp hourly
\* record of its bucket.
C27_OneRecordPerFilledBucket ==
    raw["open_interest"] # <<>> =>
        /\ \A b \in AlignedStarts :
              Cardinality(LabelledWith(oi_df, b)) =
                 (IF InWindow(raw["open_interest"], b) # {} THEN 1 ELSE 0)
        /\ EachIsLastOfWindow(raw["open_interest"], oi_df)

C27_Witness ==
    /\ pc = "merge_funding"
    /\ Len(raw["open_interest"]) = 3
    /\ ~IsHourlyRun(raw["open_interest"])
    /\ Len(oi_df) = 2
    /\ oi_df[2].datetime - oi_df[1].datetime > BarHours
    /\ \E i \in InWindow(raw["open_interest"], oi_df[1].datetime) :
          /\ raw["open_interest"][i].open_interest # oi_df[1].open_interest
          /\ i > 1

----------------------------------------------------------------------------
(* The live snapshot fetcher, price_fetcher.get_market_data: four          *)
(* sub-fetches in a row, each one request and the decoding of its answer.  *)
(* An answer is described by how far the request got (a transport fault,   *)
(* a body that is not JSON, a code other than "0", an empty data list, or  *)
(* data) and, for data, by the fields the decoding reads.  rsi_4h is a     *)
(* float cell, since calculate_rsi can yield NaN.                          *)

\* the driver is not running
DrvIdle ==
    /\ pc = "okx_4h"
    /\ idx = 1
    /\ df_4h = <<>>
    /\ df = <<>>
    /\ fr_df = <<>>
    /\ oi_df = <<>>
    /\ raw = NoRaw
    /\ failure_count = 0
    /\ csv_4h = [a \in Assets |-> Old]
    /\ csv_1d = [a \in Assets |-> Old]
    /\ calls = <<>>
    /\ failed = {}
    /\ exit_status = -1
    /\ outcome = [a \in Assets |-> "none"]
    /\ raised = {}

\* calculate_rsi(prices, period=14)
RsiPeriod == 14

\* requests.get raises, resp.json() raises, code is not "0", data is empty
SnapshotFaults == {"transport_fault", "not_json", "bad_code", "no_data"}

NoFields == {FieldMissing}

TickerAnswers ==
    [status : {"data"},
     last : {FieldOk(1), FieldOk(4), FieldMissing, FieldBad},
     open24h : {FieldOk(0), FieldOk(2), FieldMissing, FieldBad}]
    \cup [status : SnapshotFaults, last : NoFields, open24h : NoFields]

\* the candles of the RSI request: how many there are, how their closes
\* move, and whether float(c[4]) decodes every one of them
RsiAnswers ==
    [status : {"data"}, n : {RsiPeriod, RsiPeriod + 1},
     trend : {"up", "down", "flat"}, closes : {"ok", "bad"}]
    \cup [status : SnapshotFaults, n : {0}, trend : {"flat"}, closes : {"ok"}]

FundingAnswers ==
    [status : {"data"}, fundingRate : {FieldOk(1), FieldMissing, FieldBad}]
    \cup [status : SnapshotFaults, fundingRate : NoFields]

OiAnswers ==
    [status : {"data"}, oi : {FieldOk(5), FieldMissing, FieldBad}]
    \cup [status : SnapshotFaults, oi : NoFields]

\* lines 7-34 on closes that rise by one, fall by one or stay equal from
\* each candle to the next: fewer than period + 1 prices give 50.0; with
\* no loss rs is infinite and the RSI 100, with no gain rs is 0 and the
\* RSI 0, with neither rs is 0/0 and the RSI NaN
calculate_rsi(closes) ==
    IF closes.n < RsiPeriod + 1 THEN Val(50)
    ELSE CASE closes.trend = "up" -> Val(100)
           [] closes.trend = "down" -> Val(0)
           [] closes.trend = "flat" -> NaN

\* mutant of TickerResult: the price is stored as soon as it is decoded
TickerResult_Partial(res, a) ==
    IF a.status = "data" /\ a.last.st = "ok"
    THEN IF a.open24h.st = "ok"
         THEN [res EXCEPT
                 !.price = a.last.v,
                 !.change_24h =
                     IF a.open24h.v # 0
                     THEN ((a.last.v - a.open24h.v) * 100) \div a.open24h.v
                     ELSE 0]
         ELSE [res EXCEPT !.price = a.last.v]
    ELSE res

\* lines 61-73: both floats are decoded before either field is assigned;
\* anything that raises is caught and leaves result as it was
TickerResult(res, a) ==
    IF a.status = "data" /\ a.last.st = "ok" /\ a.open24h.st = "ok"
    THEN [res EXCEPT
            !.price = a.last.v,
            !.change_24h =
                IF a.open24h.v # 0
                THEN ((a.last.v - a.open24h.v) * 100) \div a.open24h.v
                ELSE 0]
    ELSE res

\* lines 76-87
RsiResult(res, a) ==
    IF a.status = "data" /\ a.closes = "ok"
    THEN [res EXCEPT !.rsi_4h = calculate_rsi(a)]
    ELSE res

\* lines 90-97: float(data["data"][0]["fundingRate"]) * 100
FundingRateResult(res, a) ==
    IF a.status = "data" /\ a.fundingRate.st = "ok"
    THEN [res EXCEPT !.funding_rate = a.fundingRate.v * 100]
    ELSE res

\* lines 100-109
OiResult(res, a) ==
    IF a.status = "data" /\ a.oi.st = "ok"
    THEN [res EXCEPT !.open_interest = a.oi.v]
    ELSE res

\* lines 52-58: get_market_data has built its result dict
InitSnapshot ==
    /\ DrvIdle
    /\ PageIdle
    /\ mpc = "ticker"
    /\ result = Defaults
    /\ answers = [f \in SubFetches |-> "none"]
    /\ clock = 0
    /\ sched = "off"
    /\ wake_at = 0
    /\ child = "none"
    /\ doc = NoDoc
    /\ handlers = [h \in Handlers |-> IdleHandler]

SnapshotTicker ==
    /\ mpc = "ticker"
    /\ \E a \in TickerAnswers :
        /\ answers' = [answers EXCEPT !["ticker"] = a]
        /\ result' = TickerResult(result, a)
    /\ mpc' = "rsi"
    /\ UNCHANGED <<clock, sched, wake_at, child, doc, handlers>>
    /\ UNCHANGED <<drvvars, pagevars>>

SnapshotRsi ==
    /\ mpc = "rsi"
    /\ \E a \in RsiAnswers :
        /\ answers' = [answers EXCEPT !["rsi"] = a]
        /\ result' = RsiResult(result, a)
    /\ mpc' = "funding_rate"
    /\ UNCHANGED <<clock, sched, wake_at, child, doc, handlers>>
    /\ UNCHANGED <<drvvars, pagevars>>

SnapshotFunding ==
    /\ mpc = "funding_rate"
    /\ \E a \in FundingAnswers :
        /\ answers' = [answers EXCEPT !["funding_rate"] = a]
        /\ result' = FundingRateResult(result, a)
    /\ mpc' = "open_interest"
    /\ UNCHANGED <<clock, sched, wake_at, child, doc, handlers>>
    /\ UNCHANGED <<drvvars, pagevars>>

\* lines 100-111: the last sub-fetch, then return result
SnapshotOi ==
    /\ mpc = "open_interest"
    /\ \E a \in OiAnswers :
        /\ answers' = [answers EXCEPT !["open_interest"] = a]
        /\ result' = OiResult(result, a)
    /\ mpc' = "returned"
    /\ UNCHANGED <<clock, sched, wake_at, child, doc, handlers>>
    /\ UNCHANGED <<drvvars, pagevars>>

NextSnapshot ==
    \/ SnapshotTicker
    \/ SnapshotRsi
    \/ SnapshotFunding
    \/ SnapshotOi

SpecSnapshot == InitSnapshot /\ [][NextSnapshot]_vars

\* the sub-fetch got data and every field it reads decodes
Succeeded(f) ==
    /\ answers[f].status = "data"
    /\ CASE f = "ticker" ->
              answers[f].last.st = "ok" /\ answers[f].open24h.st = "ok"
         [] f = "rsi" -> answers[f].closes = "ok"
         [] f = "funding_rate" -> answers[f].fundingRate.st = "ok"
         [] f = "open_interest" -> answers[f].oi.st = "ok"

\* C21: whatever combination of its four sub-fetches fails, get_market_data
\* returns a result with all five fields; the fields of a failed sub-fetch
\* hold their neutral defaults (0.0, and 50.0 for rsi_4h), the fields of a
\* successful one hold the fetched values, and no error reaches the caller.
C21_SnapshotDefaults ==
    /\ mpc # "raised"
    /\ mpc = "returned" =>
        /\ DOMAIN result =
              {"price", "change_24h", "rsi_4h", "funding_rate",
               "open_interest"}
        /\ IF Succeeded("ticker")
           THEN /\ result.price = answers["ticker"].last.v
                /\ IF answers["ticker"].open24h.v = 0
                   THEN result.change_24h = 0
                   ELSE result.change_24h * answers["ticker"].open24h.v =
                          (result.price - answers["ticker"].open24h.v) * 100
           ELSE result.price = 0 /\ result.change_24h = 0
        /\ IF Succeeded("rsi")
           THEN result.rsi_4h = calculate_rsi(answers["rsi"])
           ELSE result.rsi_4h = Val(50)
        /\ IF Succeeded("funding_rate")
           THEN result.funding_rate =
                    answers["funding_rate"].fundingRate.v * 100
           ELSE result.funding_rate = 0
        /\ IF Succeeded("open_interest")
           THEN result.open_interest = answers["open_interest"].oi.v
           ELSE result.open_interest = 0

C21_Witness ==
    /\ mpc = "returned"
    /\ answers["ticker"].status = "transport_fault"
    /\ Succeeded("rsi")
    /\ answers["funding_rate"].status = "data"
    /\ answers["funding_rate"].fundingRate.st = "bad"
    /\ Succeeded("open_interest")
    /\ result =
          [price |-> 0, change_24h |-> 0, rsi_4h |-> Val(100),
           funding_rate |-> 0, open_interest |-> 5]

----------------------------------------------------------------------------
(* The server: the scheduler task, the subprocess it starts, and the       *)
(* analyze_all requests that read and write latest_analysis.json.  Time    *)
(* is in whole hours.  What analyze_all awaits (news, snapshots, the       *)
(* language model) either comes back or raises.                            *)

\* await asyncio.sleep(4 * 60 * 60)
SleepHours == 4
\* CACHE_EXPIRY = 4 * 60 * 60
CacheExpiryHours == 4

\* hours the server is followed for
MaxClock == 9

\* load_cache(), lines 154-165: the document when it can be read and its
\* timestamp is less than CACHE_EXPIRY old, None otherwise
CacheHit == doc.exists /\ doc.readable /\ clock - doc.ts < CacheExpiryHours

\* lifespan(), lines 50-54: the scheduler task has been created; the
\* working directory may hold a document from an earlier run
InitSched ==
    /\ DrvIdle
    /\ PageIdle
    /\ mpc = "idle"
    /\ result = Defaults
    /\ answers = [f \in SubFetches |-> "none"]
    /\ clock = 0
    /\ sched = "wake"
    /\ wake_at = 0
    /\ child = "none"
    /\ doc \in {NoDoc, [exists |-> TRUE, readable |-> TRUE, ts |-> 0]}
    /\ handlers = [h \in Handlers |-> IdleHandler]

\* an hour passes
Tick ==
    /\ clock < MaxClock
    /\ clock' = clock + 1
    /\ UNCHANGED <<mpc, result, answers, sched, wake_at, child, doc, handlers>>
    /\ UNCHANGED <<drvvars, pagevars>>

\* lines 27-34: create_subprocess_exec("python", "daily_update.py"); when
\* it raises, the except clause prints and the loop goes on to its sleep
SchedulerSpawn ==
    /\ sched = "wake"
    /\ \/ sched' = "communicate" /\ child' = "importing"
       \/ sched' = "sleep" /\ UNCHANGED child
    /\ UNCHANGED <<mpc, result, answers, clock, wake_at, doc, handlers>>
    /\ UNCHANGED <<drvvars, pagevars>>

\* daily_update.py, line 5: from server import analyze_all, clean_nan.
\* clean_nan is defined inside analyze_all (server.py, line 345) and is no
\* name of the module, so the import raises ImportError and the process
\* ends before main() is defined.
DailyUpdateImport ==
    /\ child = "importing"
    /\ child' = "import_error"
    /\ UNCHANGED <<mpc, result, answers, clock, sched, wake_at, doc, handlers>>
    /\ UNCHANGED <<drvvars, pagevars>>

\* lines 35-40: communicate() returns when the subprocess has ended
SchedulerCollect ==
    /\ sched = "communicate"
    /\ child = "import_error"
    /\ sched' = "sleep"
    /\ UNCHANGED <<mpc, result, answers, clock, wake_at, child, doc, handlers>>
    /\ UNCHANGED <<drvvars, pagevars>>

\* lines 46-47: await asyncio.sleep(4 * 60 * 60)
SchedulerSleep ==
    /\ sched = "sleep"
    /\ wake_at' = clock + SleepHours
    /\ sched' = "sleeping"
    /\ UNCHANGED <<mpc, result, answers, clock, child, doc, handlers>>
    /\ UNCHANGED <<drvvars, pagevars>>

\* the sleep is over: back to the top of while True
SchedulerWake ==
    /\ sched = "sleeping"
    /\ clock >= wake_at
    /\ sched' = "wake"
    /\ UNCHANGED <<mpc, result, answers, clock, wake_at, child, doc, handlers>>
    /\ UNCHANGED <<drvvars, pagevars>>

\* GET /api/analyze_all arrives
RequestArrives(h) ==
    /\ handlers[h].pos = "idle"
    /\ \E f \in BOOLEAN :
        handlers' = [handlers EXCEPT ![h] = [pos |-> "cache", force |-> f]]
    /\ UNCHANGED <<mpc, result, answers, clock, sched, wake_at, child, doc>>
    /\ UNCHANGED <<drvvars, pagevars>>

\* lines 170-177: the cached document is returned unless force_refresh
TryCache(h) ==
    /\ handlers[h].pos = "cache"
    /\ handlers' =
          [handlers EXCEPT ![h] =
              IF ~handlers[h].force /\ CacheHit THEN IdleHandler
              ELSE [@ EXCEPT !.pos = "pipeline"]]
    /\ UNCHANGED <<mpc, result, answers, clock, sched, wake_at, child, doc>>
    /\ UNCHANGED <<drvvars, pagevars>>

\* lines 179-356: news, snapshots, the language model, the response; an
\* exception of an awaited call ends the request
Pipeline(h) ==
    /\ handlers[h].pos = "pipeline"
    /\ \/ handlers' = [handlers EXCEPT ![h] = IdleHandler]
       \/ handlers' = [handlers EXCEPT ![h] =
                          [pos |-> "write", force |-> @.force, ts |-> clock]]
    /\ UNCHANGED <<mpc, result, answers, clock, sched, wake_at, child, doc>>
    /\ UNCHANGED <<drvvars, pagevars>>

\* lines 358-367: json.dump(response_data) to latest_analysis.json
WriteDoc(h) ==
    /\ handlers[h].pos = "write"
    /\ doc' = [exists |-> TRUE, readable |-> TRUE, ts |-> handlers[h].ts]
    /\ handlers' = [handlers EXCEPT ![h] = IdleHandler]
    /\ UNCHANGED <<mpc, result, answers, clock, sched, wake_at, child>>
    /\ UNCHANGED <<drvvars, pagevars>>

NextSched ==
    \/ Tick
    \/ SchedulerSpawn
    \/ DailyUpdateImport
    \/ SchedulerCollect
    \/ SchedulerSleep
    \/ SchedulerWake
    \/ \E h \in Handlers : RequestArrives(h)
    \/ \E h \in Handlers : TryCache(h)
    \/ \E h \in Handlers : Pipeline(h)
    \/ \E h \in Handlers : WriteDoc(h)

SpecSched == InitSched /\ [][NextSched]_vars

\* the subprocess a wake-up started has ended
ChildEnded == sched = "communicate" /\ child \notin {"none", "importing"}

\* the subprocess ran the update, daily_update.main(), to one of its two
\* ends: the document saved, or the failure of the analysis caught
FullUpdateRun == child \in {"saved", "analysis_failed"}

\* C30: every wake-up of the scheduler triggers a full update run, whose
\* completion refreshes the cached document and whose failure leaves the
\* scheduler going: the subprocess of a wake-up ends as a run of the
\* update, saved or failed, never before the update has begun.
C30_WakeUpRunsFullUpdate == ChildEnded => FullUpdateRun

\* request h is answered from the cache in this step: analyze_all returns
\* at line 174 without having started the analysis or touched the document
ServedFromCache(h) ==
    /\ handlers[h].pos = "cache"
    /\ handlers'[h].pos = "idle"
    /\ doc' = doc

\* the document exists, can be read and is less than CacheExpiryHours old
FreshDocument ==
    /\ doc.exists
    /\ doc.readable
    /\ clock - doc.ts < CacheExpiryHours

\* a request without force_refresh that looks at the cache is answered
\* from it exactly when the document is fresh, and starts the analysis
\* otherwise
CacheServedIffFresh ==
    \A h \in Handlers :
        (handlers[h].pos = "cache" /\ handlers'[h] # handlers[h]
            /\ ~handlers[h].force)
        => /\ ServedFromCache(h) <=> FreshDocument
           /\ ~ServedFromCache(h) => handlers'[h].pos = "pipeline"

\* a request with force_refresh is never answered from the cache, and
\* when it ends it has just written the document
ForcedRequestOverwrites ==
    \A h \in Handlers :
        (handlers[h].force /\ handlers'[h] # handlers[h])
        => /\ handlers[h].pos = "cache" => handlers'[h].pos = "pipeline"
           /\ handlers'[h].pos = "idle" =>
                 /\ handlers[h].pos = "write"
                 /\ doc' = [exists |-> TRUE, readable |-> TRUE,
                            ts |-> handlers[h].ts]

\* C33: analyze_all without force_refresh returns the cached document and
\* fetches nothing if and only if the document exists, is readable and is
\* strictly less than 4 hours old; with force_refresh it always runs a
\* fresh analysis and overwrites the cached document.
C33_CacheServedOrRefreshed ==
    [][CacheServedIffFresh /\ ForcedRequestOverwrites]_vars

\* the requests that are past the cache check: running the analysis, or
\* about to write the document
Refreshing == {h \in Handlers : handlers[h].pos \in {"pipeline", "write"}}

\* the subprocess of the scheduler is inside daily_update.main()
UpdateRunning == child \in {"running", "writing"}

\* C34: at most one fresh analysis is in progress, and about to write the
\* cached document, at any time: two requests that found the cache
\* expired, or a request and an update started by the scheduler, never
\* run the analysis together.
C34_SingleFreshAnalysis ==
    Cardinality(Refreshing) + (IF UpdateRunning THEN 1 ELSE 0) <= 1

====
